---- MODULE Spec2Model ----
(***************************************************************************)
(* Model of the HDFC dashboard scripts: the charting helper hdfc_viz       *)
(* (plot_bar_chart, create_dashboard, _get_gradient_colors), the bulk      *)
(* export driver generate_dashboard.main, the example gallery driver       *)
(* generate_examples.generate_examples and the cleaning script             *)
(* remove_subtotal.py.                                                     *)
(*                                                                         *)
(* Python values are represented as follows.  A str that the code slices   *)
(* (a path) is a sequence of one-character strings; a str that is only     *)
(* compared (a column, sheet or scheme name) is a TLA+ string.  A list is  *)
(* a sequence.  None is the sentinel of the value's shape (None, NoPath)   *)
(* or an isNone flag.  An exception is a non-"none" value of a `raised'    *)
(* field.                                                                  *)
(***************************************************************************)
EXTENDS Integers, Sequences, FiniteSets, TLC

\* ------------------------------------------------------------------------
\* Bounds of the model
\* ------------------------------------------------------------------------
MaxCols == 9
MaxRows == 10
MaxGroups == 7
MaxSheets == 2
MaxCleanRows == 2

MaxCalls == 2

\* ------------------------------------------------------------------------
\* Python built-ins used by the code
\* ------------------------------------------------------------------------
Min(a, b) == IF a <= b THEN a ELSE b

Max(a, b) == IF a >= b THEN a ELSE b

\* s[a:b] for 0 <= a, 0 <= b
Slice(s, a, b) ==
    LET hi == Min(b, Len(s))
    IN  IF a >= hi THEN <<>> ELSE SubSeq(s, a + 1, hi)

\* x in s, for a list s
Contains(s, x) == \E k \in 1..Len(s) : s[k] = x

\* range(0, n, step) as the sequence of its values
Range(n, step) == [k \in 1..((n + step - 1) \div step) |-> (k - 1) * step]

\* the concatenation of a list of lists
RECURSIVE Concat(_)
Concat(ss) == IF ss = <<>> THEN <<>> ELSE Head(ss) \o Concat(Tail(ss))

None == "<None>"

\* ------------------------------------------------------------------------
\* hdfc_viz: module-level tables
\* ------------------------------------------------------------------------
Hex(h) == [kind |-> "hex", hex |-> h, to |-> "", num |-> 0, den |-> 1]

Rgba(from, to, num, den) ==
    [kind |-> "rgba", hex |-> from, to |-> to, num |-> num, den |-> den]

HexList(hs) == [k \in 1..Len(hs) |-> Hex(hs[k])]

COLOR_SCHEMES_init ==
    [corporate |-> HexList(<<"#003f5c", "#2f4b7c", "#665191", "#a05195",
                             "#d45087", "#f95d6a", "#ff7c43", "#ffa600">>),
     vibrant |-> HexList(<<"#1f77b4", "#ff7f0e", "#2ca02c", "#d62728",
                           "#9467bd", "#8c564b", "#e377c2", "#7f7f7f">>),
     pastel |-> HexList(<<"#66c2a5", "#fc8d62", "#8da0cb", "#e78ac3",
                          "#a6d854", "#ffd92f", "#e5c494", "#b3b3b3">>),
     hdfc_brand |-> HexList(<<"#ED232A", "#0033A0", "#808080", "#FF6600",
                              "#003366", "#FFCC00", "#00CCFF", "#009900">>),
     gradient_blue |-> HexList(<<"#f7fbff", "#deebf7", "#c6dbef", "#9ecae1",
                                 "#6baed6", "#4292c6", "#2171b5", "#084594">>),
     gradient_red |-> HexList(<<"#fff5f0", "#fee0d2", "#fcbba1", "#fc9272",
                                "#fb6a4a", "#ef3b2c", "#cb181d", "#99000d">>)]

BG_STYLES_init ==
    [default |-> [style |-> "whitegrid", grid_alpha |-> 3],
     minimal |-> [style |-> "white", grid_alpha |-> 0],
     classic |-> [style |-> "darkgrid", grid_alpha |-> 1],
     presentation |-> [style |-> "white", grid_alpha |-> 2]]

\* a color_scheme argument: a name (str) or a caller-supplied list of colors
SchemeName(n) == [kind |-> "str", name |-> n, colors |-> <<>>]

SchemeList(cs) == [kind |-> "list", name |-> "", colors |-> cs]

VARIABLES
    script,         \* the program that runs
    pc,             \* its control position
    COLOR_SCHEMES,  \* hdfc_viz.COLOR_SCHEMES
    BG_STYLES,      \* hdfc_viz.BG_STYLES
    df,             \* the caller's table
    world,          \* matplotlib's figures and the image files written
    call,           \* arguments of the running plot_bar_chart / create_dashboard call
    last,           \* outcome of the last plot_bar_chart call
    cd,             \* locals of the running create_dashboard call
    workbook,       \* the sheets of the Excel file a driver script reads
    args,           \* the parsed command line of generate_dashboard
    gd,             \* locals of the running driver script
    disk,           \* HDFC.xlsx, HDFC_backup.xlsx and HDFC_modified.xlsx
    rs              \* locals of the running remove_subtotal script

vars == <<script, pc, COLOR_SCHEMES, BG_STYLES, df, world, call, last, cd,
          workbook, args, gd, disk, rs>>

\* ------------------------------------------------------------------------
\* hdfc_viz._get_gradient_colors
\* ------------------------------------------------------------------------
SchemeColors(color_scheme) ==
    IF color_scheme.kind = "list" THEN color_scheme.colors
    ELSE IF color_scheme.name \in DOMAIN COLOR_SCHEMES
         THEN COLOR_SCHEMES[color_scheme.name]
         ELSE COLOR_SCHEMES["corporate"]

\* the same with `<=' for `<' in the test for a short palette
_get_gradient_colors_le(color_scheme, num_categories) ==
    LET colors == SchemeColors(color_scheme)
    IN  IF Len(colors) <= num_categories
        THEN IF colors = <<>>
             THEN [raised |-> "IndexError", colors |-> <<>>]
             ELSE IF num_categories - 1 = 0
             THEN [raised |-> "ZeroDivisionError", colors |-> <<>>]
             ELSE [raised |-> "none",
                   colors |-> [k \in 1..num_categories |->
                                 Rgba(colors[1].hex, colors[Len(colors)].hex,
                                      k - 1, num_categories - 1)]]
        ELSE [raised |-> "none", colors |-> Slice(colors, 0, num_categories)]

_get_gradient_colors(color_scheme, num_categories) ==
    LET colors == SchemeColors(color_scheme)
    IN  IF Len(colors) < num_categories
        THEN IF colors = <<>>
             THEN [raised |-> "IndexError", colors |-> <<>>]
             ELSE IF num_categories - 1 = 0
             THEN [raised |-> "ZeroDivisionError", colors |-> <<>>]
             ELSE [raised |-> "none",
                   colors |-> [k \in 1..num_categories |->
                                 Rgba(colors[1].hex, colors[Len(colors)].hex,
                                      k - 1, num_categories - 1)]]
        ELSE [raised |-> "none", colors |-> Slice(colors, 0, num_categories)]

\* ------------------------------------------------------------------------
\* hdfc_viz.plot_bar_chart
\* ------------------------------------------------------------------------
NoPath == <<None>>

\* truth value of a str-or-None argument
Truthy(path) == path # NoPath /\ path # <<>>

LayoutNone == [kind |-> "None", rows |-> 0, cols |-> 0]

LayoutAuto == [kind |-> "auto", rows |-> 0, cols |-> 0]

LayoutTuple(r, c) == [kind |-> "tuple", rows |-> r, cols |-> c]

\* the requested columns, existing or not
ValidColumns_unfiltered(dfv, columns) == columns

\* lines 213-214: the requested columns that exist in the table
ValidColumns(dfv, columns) ==
    SelectSeq(columns, LAMBDA col : Contains(dfv.columns, col))

\* the same with the row count rounded down
ChooseLayout_floor(layout, n) ==
    IF layout.kind = "None" \/ layout.kind = "auto"
    THEN IF n <= 2 THEN <<1, n>>
         ELSE IF n <= 4 THEN <<2, 2>>
         ELSE LET cols == Min(3, n)
                  rows == n \div cols
              IN  <<rows, cols>>
    ELSE <<layout.rows, layout.cols>>

\* lines 229-238: the subplot grid
ChooseLayout(layout, n) ==
    IF layout.kind = "None" \/ layout.kind = "auto"
    THEN IF n <= 2 THEN <<1, n>>
         ELSE IF n <= 4 THEN <<2, 2>>
         ELSE LET cols == Min(3, n)
                  rows == (n + cols - 1) \div cols
              IN  <<rows, cols>>
    ELSE <<layout.rows, layout.cols>>

\* the loop without its test: axes[i] beyond the last panel raises
DrawLoop_unchecked(valid_columns, naxes) ==
    [raised |-> IF Len(valid_columns) > naxes THEN "IndexError" ELSE "none",
     drawn |-> Slice(valid_columns, 0, naxes)]

\* lines 253-257: the loop over the valid columns stops at the last panel
DrawLoop(valid_columns, naxes) ==
    [raised |-> "none", drawn |-> Slice(valid_columns, 0, naxes)]

\* no table
NoTable == [columns |-> <<>>, nrows |-> 0, index_name |-> None]

\* the outcome of a call that raised before plt.subplots
PlotRaisedEarly(w, valid_columns, exc) ==
    [raised |-> exc, fig |-> 0, valid_columns |-> valid_columns,
     layout |-> <<0, 0>>, drawn |-> <<>>, panels |-> 0, colors |-> <<>>,
     saved |-> NoPath, world |-> w, df |-> NoTable, data |-> NoTable]

\* data = df, the same object under a second name
DataFrame_copy_alias(dfv) == [data |-> dfv, shared |-> TRUE]

\* line 209: df.copy(), a new table with the contents of df
DataFrame_copy(dfv) == [data |-> dfv, shared |-> FALSE]

\* lines 218-220: data.index.name = index_name, on the table `copy.data';
\* `df' is the caller's table afterwards
SetIndexName(copy, index_name) ==
    LET data == IF index_name # None /\ index_name # ""
                THEN [copy.data EXCEPT !.index_name = index_name]
                ELSE copy.data
    IN  [data |-> data, df |-> IF copy.shared THEN data ELSE copy.data]

\* fault is what the environment does to this call: "none", or "draw"
\* (sns.barplot raises on the data), or "save" (plt.savefig raises)
plot_bar_chart(w, dfv, columns, index_name, color_scheme, layout, save_path, show_plot, fault) ==
    LET named == SetIndexName(DataFrame_copy(dfv), index_name)
        data == named.data
        valid_columns == ValidColumns(dfv, columns)
        grid == ChooseLayout(layout, Len(valid_columns))
        naxes == grid[1] * grid[2]
        fig == w.nextFig
        opened == [w EXCEPT !.figures = @ \cup {fig}, !.nextFig = @ + 1]
        got == _get_gradient_colors(color_scheme, data.nrows)
        loop == DrawLoop(valid_columns, naxes)
        drawn == loop.drawn
        panels == naxes - Max(naxes - Len(valid_columns), 0)
        out(exc, d, p, sv, wd) ==
            [raised |-> exc, fig |-> fig, valid_columns |-> valid_columns,
             layout |-> grid, drawn |-> d, panels |-> p, colors |-> got.colors,
             saved |-> sv, world |-> wd, df |-> named.df, data |-> data]
        closed == IF show_plot THEN opened
                  ELSE [opened EXCEPT !.figures = @ \ {fig}]
    IN  IF valid_columns = <<>>
        THEN [PlotRaisedEarly(w, valid_columns, "ValueError")
                 EXCEPT !.df = dfv, !.data = dfv]
        ELSE IF got.raised # "none"
        THEN out(got.raised, <<>>, naxes, NoPath, opened)
        ELSE IF got.colors = <<>>
        THEN out("IndexError", <<>>, naxes, NoPath, opened)
        ELSE IF fault = "draw"
        THEN out("DrawError", <<>>, naxes, NoPath, opened)
        ELSE IF loop.raised # "none"
        THEN out(loop.raised, drawn, naxes, NoPath, opened)
        ELSE IF Truthy(save_path) /\ fault = "save"
        THEN out("SaveError", drawn, panels, NoPath, opened)
        ELSE IF Truthy(save_path)
        THEN out("none", drawn, panels, save_path,
                 [closed EXCEPT !.saves = Append(@, save_path)])
        ELSE out("none", drawn, panels, NoPath, closed)

\* ------------------------------------------------------------------------
\* str operations used on paths
\* ------------------------------------------------------------------------
UPPER == <<"A", "B", "C", "D", "E", "F", "G", "H", "I", "J", "K", "L", "M",
           "N", "O", "P", "Q", "R", "S", "T", "U", "V", "W", "X", "Y", "Z">>

LOWER == <<"a", "b", "c", "d", "e", "f", "g", "h", "i", "j", "k", "l", "m",
           "n", "o", "p", "q", "r", "s", "t", "u", "v", "w", "x", "y", "z">>

LowerChar(c) ==
    IF \E k \in 1..26 : UPPER[k] = c
    THEN LOWER[CHOOSE k \in 1..26 : UPPER[k] = c]
    ELSE c

\* str.lower
Lower(str) == [k \in 1..Len(str) |-> LowerChar(str[k])]

\* str.endswith(suffix)
EndsWith(str, suffix) ==
    /\ Len(suffix) <= Len(str)
    /\ SubSeq(str, Len(str) - Len(suffix) + 1, Len(str)) = suffix

\* str(n) for n >= 0
DigitChars == <<"0", "1", "2", "3", "4", "5", "6", "7", "8", "9">>

RECURSIVE Str(_)
Str(n) == IF n < 10 THEN <<DigitChars[n + 1]>>
          ELSE Str(n \div 10) \o <<DigitChars[(n % 10) + 1]>>

\* str.split('.', 1) instead: the split at the first '.'
RSplitDot_first(str) ==
    LET dot == CHOOSE k \in 1..Len(str) :
                   /\ str[k] = "."
                   /\ \A m \in 1..(k - 1) : str[m] # "."
    IN  [base |-> SubSeq(str, 1, dot - 1), ext |-> SubSeq(str, dot + 1, Len(str))]

\* str.rsplit('.', 1) of a str that contains a '.'
RSplitDot(str) ==
    LET dot == CHOOSE k \in 1..Len(str) :
                   /\ str[k] = "."
                   /\ \A m \in (k + 1)..Len(str) : str[m] # "."
    IN  [base |-> SubSeq(str, 1, dot - 1), ext |-> SubSeq(str, dot + 1, Len(str))]

\* ------------------------------------------------------------------------
\* hdfc_viz.create_dashboard
\* ------------------------------------------------------------------------
ImageSuffixes == {<<".", "p", "n", "g">>, <<".", "j", "p", "g">>,
                  <<".", "j", "p", "e", "g">>, <<".", "p", "d", "f">>,
                  <<".", "s", "v", "g">>}

DefaultColorSchemes ==
    <<SchemeName("corporate"), SchemeName("hdfc_brand"), SchemeName("vibrant"),
      SchemeName("pastel"), SchemeName("gradient_blue"), SchemeName("gradient_red")>>

\* an optional argument: None, or a value
NoneArg == [isNone |-> TRUE, v |-> <<>>]

Some(v) == [isNone |-> FALSE, v |-> v]

\* lines 467-472: the columns in groups of four
RECURSIVE GroupsOfFour(_, _)
GroupsOfFour(cols, starts) ==
    IF starts = <<>> THEN <<>>
    ELSE LET group == Slice(cols, Head(starts), Head(starts) + 4)
             rest == GroupsOfFour(cols, Tail(starts))
         IN  IF group # <<>> THEN <<group>> \o rest ELSE rest

\* lines 461-472: the groups when column_groups is None
AutoColumnGroups(dfv) ==
    IF Len(dfv.columns) <= 4
    THEN <<dfv.columns>>
    ELSE GroupsOfFour(dfv.columns, Range(Len(dfv.columns), 4))

\* lines 506-514: where the image of the group at position i goes
GroupSavePath(output_path, i) ==
    IF Truthy(output_path)
    THEN IF \E suffix \in ImageSuffixes : EndsWith(Lower(output_path), suffix)
         THEN LET parts == RSplitDot(output_path)
              IN  parts.base \o <<"_", "g", "r", "o", "u", "p">> \o Str(i + 1)
                      \o <<".">> \o parts.ext
         ELSE output_path \o <<"_", "g", "r", "o", "u", "p">> \o Str(i + 1)
                  \o <<".", "p", "n", "g">>
    ELSE NoPath

\* line 477: the color scheme of the group at position i (a non-empty list)
SelectColorScheme_clamped(color_schemes, i) ==
    color_schemes[Min(i, Len(color_schemes) - 1) + 1]

SelectColorScheme(color_schemes, i) ==
    color_schemes[(i % Len(color_schemes)) + 1]

\* line 535: results.append((fig, axes))
AppendResult_overwrite(results, entry) == <<entry>>

AppendResult(results, entry) == Append(results, entry)

\* lines 455-472: the locals before the loop over the groups
create_dashboard_enter(dfv, a) ==
    [color_schemes |-> IF a.color_schemes.isNone THEN DefaultColorSchemes
                       ELSE a.color_schemes.v,
     column_groups |-> IF a.column_groups.isNone THEN AutoColumnGroups(dfv)
                       ELSE a.column_groups.v,
     i |-> 0, results |-> <<>>, used |-> <<>>, raised |-> "none"]

\* one pass of a loop that goes on to the next group when a group raises
create_dashboard_group_continue(f, w, dfv, a, fault) ==
    LET i == f.i
        columns == f.column_groups[i + 1]
        layout == IF ~a.layout_options.isNone /\ a.layout_options.v # <<>>
                      /\ i < Len(a.layout_options.v)
                  THEN a.layout_options.v[i + 1] ELSE LayoutNone
        save_path == GroupSavePath(a.output_path, i)
    IN  IF Len(f.color_schemes) = 0
        THEN [cd |-> [f EXCEPT !.raised = "ZeroDivisionError"], world |-> w,
              last |-> PlotRaisedEarly(w, <<>>, "not called"), df |-> dfv]
        ELSE LET color_scheme == SelectColorScheme(f.color_schemes, i)
                 r == plot_bar_chart(w, dfv, columns, None, color_scheme, layout,
                                     save_path, a.show_plots, fault)
             IN  IF r.raised # "none"
                 THEN [cd |-> [f EXCEPT !.i = i + 1,
                                        !.used = Append(@, color_scheme)],
                       world |-> r.world, last |-> r, df |-> r.df]
                 ELSE [cd |-> [f EXCEPT !.i = i + 1,
                                        !.used = Append(@, color_scheme),
                                        !.results = AppendResult(@,
                                            [fig |-> r.fig,
                                             axes |-> r.layout[1] * r.layout[2]])],
                       world |-> r.world, last |-> r, df |-> r.df]

\* lines 475-535: one pass of the loop, for the group at position f.i
create_dashboard_group(f, w, dfv, a, fault) ==
    LET i == f.i
        columns == f.column_groups[i + 1]
        layout == IF ~a.layout_options.isNone /\ a.layout_options.v # <<>>
                      /\ i < Len(a.layout_options.v)
                  THEN a.layout_options.v[i + 1] ELSE LayoutNone
        save_path == GroupSavePath(a.output_path, i)
    IN  IF Len(f.color_schemes) = 0
        THEN [cd |-> [f EXCEPT !.raised = "ZeroDivisionError"], world |-> w,
              last |-> PlotRaisedEarly(w, <<>>, "not called"), df |-> dfv]
        ELSE LET color_scheme == SelectColorScheme(f.color_schemes, i)
                 r == plot_bar_chart(w, dfv, columns, None, color_scheme, layout,
                                     save_path, a.show_plots, fault)
             IN  IF r.raised # "none"
                 THEN [cd |-> [f EXCEPT !.raised = r.raised,
                                        !.used = Append(@, color_scheme)],
                       world |-> r.world, last |-> r, df |-> r.df]
                 ELSE [cd |-> [f EXCEPT !.i = i + 1,
                                        !.used = Append(@, color_scheme),
                                        !.results = AppendResult(@,
                                            [fig |-> r.fig,
                                             axes |-> r.layout[1] * r.layout[2]])],
                       world |-> r.world, last |-> r, df |-> r.df]

\* ------------------------------------------------------------------------
\* hdfc_viz._format_value and the labels of the bars
\* A float is NaN or a number of thousandths: Num(12340) is 12.34
\* ------------------------------------------------------------------------
NaN == [nan |-> TRUE, m |-> 0]

Num(m) == [nan |-> FALSE, m |-> m]

Abs(x) == IF x < 0 THEN -x ELSE x

Pow10(k) == <<1, 10, 100, 1000, 10000, 100000, 1000000>>[k + 1]

\* round(value) of m thousandths: to the nearest integer, a half to the even
Round(m) ==
    LET q == m \div 1000
        r == m % 1000
    IN  IF r < 500 THEN q
        ELSE IF r > 500 THEN q + 1
        ELSE IF q % 2 = 0 THEN q ELSE q + 1

\* int(value) of m thousandths: towards zero
IntOf(m) == IF m >= 0 THEN m \div 1000 ELSE -((-m) \div 1000)

\* n >= 0 in at least `width' digits
ZeroPad(n, width) ==
    LET digits == Str(n)
    IN  [k \in 1..Max(width - Len(digits), 0) |-> "0"] \o digits

\* the digits of n >= 0 in groups of three
RECURSIVE Thousands(_)
Thousands(n) ==
    IF n < 1000 THEN Str(n)
    ELSE Thousands(n \div 1000) \o <<",">> \o ZeroPad(n % 1000, 3)

\* f'{n:,}' of an int n
FormatInt(n) == (IF n < 0 THEN <<"-">> ELSE <<>>) \o Thousands(Abs(n))

\* f'{value:.{p}f}' of m thousandths, 0 <= p <= 6: the nearest number with
\* p decimals (a half to the even digit), the sign of a negative value kept
FormatFixed(m, p) ==
    LET a == Abs(m)
        scaled == IF p >= 3 THEN a * Pow10(p - 3)
                  ELSE LET u == Pow10(3 - p)
                           q == a \div u
                           r == a % u
                       IN  IF 2 * r < u THEN q
                           ELSE IF 2 * r > u THEN q + 1
                           ELSE IF q % 2 = 0 THEN q ELSE q + 1
        whole == Str(scaled \div Pow10(p))
    IN  (IF m < 0 THEN <<"-">> ELSE <<>>) \o whole
            \o (IF p = 0 THEN <<>>
                ELSE <<".">> \o ZeroPad(scaled % Pow10(p), p))

\* f'{value:.{p}%}'
FormatPercent(m, p) == FormatFixed(m * 100, p) \o <<"%">>

\* lines 47-81; precision is NoneArg or Some(p)
_format_value(value, is_percentage, precision) ==
    IF value.nan THEN <<"N", "/", "A">>
    ELSE LET m == value.m
         IN  IF is_percentage
             THEN FormatPercent(m, IF precision.isNone
                                   THEN (IF Abs(m) < 10 THEN 2 ELSE 1)
                                   ELSE precision.v)
             ELSE IF Abs(m - 1000 * Round(m)) < 10 /\ m >= 10000
             THEN FormatInt(IntOf(m))
             ELSE LET p == IF ~precision.isNone THEN precision.v
                           ELSE IF Abs(m) < 10 THEN 4
                           ELSE IF Abs(m) < 100 THEN 3
                           ELSE IF Abs(m) < 1000 THEN 2
                           ELSE IF Abs(m) < 10000 THEN 1
                           ELSE IF Abs(m) % 1000 < 10 THEN 0 ELSE 2
                  IN  IF p = 0 THEN FormatInt(IntOf(m))
                      ELSE FormatFixed(m, p)

\* an entry of value_format: a dict with the keys it has
FormatEntry(has_pct, pct, has_prec, prec) ==
    [has_is_percentage |-> has_pct, is_percentage |-> pct,
     has_precision |-> has_prec, precision |-> prec]

\* the name decides whenever it holds a '%'
column_format_by_name(value_format, col) ==
    IF Contains(Lower(col), "%")
    THEN [is_percentage |-> TRUE, precision |-> NoneArg]
    ELSE IF ~value_format.isNone /\ DOMAIN value_format.v # {}
               /\ col \in DOMAIN value_format.v
    THEN LET entry == value_format.v[col]
         IN  [is_percentage |-> IF entry.has_is_percentage
                                THEN entry.is_percentage ELSE FALSE,
              precision |-> IF entry.has_precision
                            THEN Some(entry.precision) ELSE NoneArg]
    ELSE [is_percentage |-> FALSE, precision |-> NoneArg]

\* lines 259-268: is the column a percentage, and the precision of its labels
column_format(value_format, col) ==
    IF ~value_format.isNone /\ DOMAIN value_format.v # {}
          /\ col \in DOMAIN value_format.v
    THEN LET entry == value_format.v[col]
         IN  [is_percentage |-> IF entry.has_is_percentage
                                THEN entry.is_percentage ELSE FALSE,
              precision |-> IF entry.has_precision
                            THEN Some(entry.precision) ELSE NoneArg]
    ELSE [is_percentage |-> Contains(Lower(col), "%"), precision |-> NoneArg]

\* lines 326-331: the label of a bar of height `value' in the panel of col
bar_label(value_format, col, value) ==
    LET fmt == column_format(value_format, col)
    IN  [is_percentage |-> fmt.is_percentage, precision |-> fmt.precision,
         label |-> _format_value(value, fmt.is_percentage, fmt.precision)]

\* ------------------------------------------------------------------------
\* The callers' inputs
\* ------------------------------------------------------------------------
AllColumnNames == <<"c1", "c2", "c3", "c4", "c5", "c6", "c7", "c8", "c9",
                    "c10", "c11", "c12">>

\* a table with n data columns and r rows, indexed by Category
Table(n, r) == [columns |-> SubSeq(AllColumnNames, 1, n), nrows |-> r,
                index_name |-> "Category"]

Chars_out == <<"o", "u", "t">>

CallerColors == <<Hex("#111111"), Hex("#222222"), Hex("#333333")>>

ColorSchemeArgs ==
    {SchemeName(n) : n \in DOMAIN COLOR_SCHEMES_init \cup {"unknown"}}
        \cup {SchemeList(SubSeq(CallerColors, 1, k)) : k \in 0..3}

NoCall == [fn |-> "none"]

NoFrame == [color_schemes |-> <<>>, column_groups |-> <<>>, i |-> 0,
            results |-> <<>>, used |-> <<>>, raised |-> "none"]

NoResult == PlotRaisedEarly([figures |-> {}, nextFig |-> 1, saves |-> <<>>],
                            <<>>, "not called")

NoDriver == [sheets |-> <<>>, k |-> 0, log |-> <<>>, grouped |-> <<>>,
             raised |-> <<>>]

NoArgs == [sheet |-> NoPath, output |-> <<>>, colors |-> "hdfc_brand"]

\* no driver script runs: the library is called directly
InitNoDriver ==
    /\ workbook = <<>>
    /\ args = NoArgs
    /\ gd = NoDriver

NoDisk == [original |-> <<>>, backup |-> <<>>, modified |-> <<>>]

NoCleaning == [sheet_names |-> <<>>, k |-> 0, writer |-> <<>>]

\* remove_subtotal.py does not run
InitNoCleaning ==
    /\ disk = NoDisk
    /\ rs = NoCleaning

InitModule ==
    /\ InitNoCleaning
    /\ COLOR_SCHEMES = COLOR_SCHEMES_init
    /\ BG_STYLES = BG_STYLES_init
    /\ world = [figures |-> {}, nextFig |-> 1, saves |-> <<>>]
    /\ call = NoCall
    /\ last = NoResult
    /\ cd = NoFrame

\* ------------------------------------------------------------------------
\* SpecPlot: a caller makes one plot_bar_chart call
\* ------------------------------------------------------------------------
PlotColumnArgs ==
    {<<>>, <<"zz">>, <<"c2", "c1">>, <<"zz", "c3", "yy", "c1">>,
     <<"c1", "c2", "c3", "c4", "c5">>,
     <<"c6", "c5", "c4", "c3", "c2", "c1", "zz">>}

PlotLayoutArgs == {LayoutNone, LayoutAuto, LayoutTuple(1, 2)}

PlotRowCounts == {0, 1, 2, 4} \cup (8..MaxRows)

\* index_name: absent, or a name for the index of the drawn table
IndexNameArgs == {None, "Segment"}

InitPlot ==
    /\ script = "caller"
    /\ pc = "idle"
    /\ InitModule
    /\ InitNoDriver
    /\ df \in {Table(n, r) : n \in {0, 6}, r \in PlotRowCounts}

PlotBarChartCall ==
    /\ script = "caller"
    /\ pc = "idle"
    /\ \E columns \in PlotColumnArgs, index_name \in IndexNameArgs,
          color_scheme \in ColorSchemeArgs,
          layout \in PlotLayoutArgs, save_path \in {NoPath, Chars_out},
          show_plot \in BOOLEAN, fault \in {"none", "draw", "save"} :
          LET r == plot_bar_chart(world, df, columns, index_name, color_scheme,
                                  layout, save_path, show_plot, fault)
          IN  /\ call' = [fn |-> "plot_bar_chart", columns |-> columns,
                          index_name |-> index_name,
                          color_scheme |-> color_scheme, layout |-> layout,
                          save_path |-> save_path, show_plot |-> show_plot,
                          fault |-> fault]
              /\ last' = r
              /\ world' = r.world
              /\ df' = r.df
              /\ pc' = IF r.raised = "none" THEN "returned" ELSE "raised"
    /\ UNCHANGED <<script, COLOR_SCHEMES, BG_STYLES, cd, workbook, args, gd, disk, rs>>

NextPlot == PlotBarChartCall

SpecPlot == InitPlot /\ [][NextPlot]_vars

\* ------------------------------------------------------------------------
\* SpecDash: a caller makes one create_dashboard call; the loop over the
\* groups advances one group per step
\* ------------------------------------------------------------------------
GoodGroup == <<"c1", "c2">>

BadGroup == <<"zz">>

\* k groups of existing columns, at most one of them replaced by a group of
\* columns the table does not have
ExplicitGroups ==
    {[j \in 1..k |-> IF j = bad THEN BadGroup ELSE GoodGroup] :
        k \in 0..MaxGroups, bad \in 0..MaxGroups}

ColumnGroupArgs == {NoneArg} \cup {Some(g) : g \in ExplicitGroups}

ColorSchemesArgs ==
    {NoneArg, Some(<<>>), Some(<<SchemeName("hdfc_brand")>>),
     Some(<<SchemeName("vibrant"), SchemeList(CallerColors)>>)}

DashOutputPaths ==
    {NoPath, <<>>, Chars_out,
     Chars_out \o <<".", "P", "N", "G">>,
     Chars_out \o <<".", "t", "x", "t">>,
     <<"v", ".", "1", ".", "j", "p", "e", "g">>,
     <<".", "s", "v", "g">>}

\* the calls tried on the table dfv: every column_groups argument, with
\* either the output path or the color schemes varied; explicit groups are
\* tried on the tables of at most two columns
DashCalls(dfv) ==
    {a \in [fn : {"create_dashboard"}, column_groups : ColumnGroupArgs,
            output_path : DashOutputPaths, color_schemes : ColorSchemesArgs,
            show_plots : BOOLEAN, layout_options : {NoneArg}] :
        /\ a.column_groups.isNone \/ Len(dfv.columns) <= 2
        /\ a.color_schemes.isNone \/ a.output_path \in {NoPath, Chars_out}}

InitDash ==
    /\ script = "caller"
    /\ pc = "idle"
    /\ InitModule
    /\ InitNoDriver
    /\ df \in {Table(n, 3) : n \in 0..MaxCols} \cup {Table(2, 0)}

CreateDashboardCall ==
    /\ script = "caller"
    /\ pc = "idle"
    /\ \E a \in DashCalls(df) :
          /\ call' = a
          /\ cd' = create_dashboard_enter(df, a)
    /\ pc' = "cd_loop"
    /\ UNCHANGED <<script, COLOR_SCHEMES, BG_STYLES, df, world, last, workbook, args, gd, disk, rs>>

CreateDashboardGroup ==
    /\ pc = "cd_loop"
    /\ cd.i < Len(cd.column_groups)
    /\ \E fault \in {"none", "draw", "save"} :
          LET step == create_dashboard_group(cd, world, df, call, fault)
          IN  /\ cd' = step.cd
              /\ world' = step.world
              /\ last' = step.last
              /\ df' = step.df
              /\ pc' = IF step.cd.raised = "none" THEN "cd_loop" ELSE "raised"
    /\ UNCHANGED <<script, COLOR_SCHEMES, BG_STYLES, call, workbook, args, gd, disk, rs>>

CreateDashboardReturn ==
    /\ pc = "cd_loop"
    /\ cd.i >= Len(cd.column_groups)
    /\ pc' = "returned"
    /\ UNCHANGED <<script, COLOR_SCHEMES, BG_STYLES, df, world, call, last, cd,
                 workbook, args, gd, disk, rs>>

NextDash == CreateDashboardCall \/ CreateDashboardGroup \/ CreateDashboardReturn

SpecDash == InitDash /\ [][NextDash]_vars

\* ------------------------------------------------------------------------
\* SpecFrame: a caller makes plot_bar_chart and create_dashboard calls one
\* after the other on the same table, until MaxCalls figures were opened
\* ------------------------------------------------------------------------
FrameColumnArgs == {<<"c1">>, <<"zz">>}

FrameColorSchemes == {SchemeName("gradient_blue"), SchemeList(CallerColors)}

FrameDashCall ==
    [fn |-> "create_dashboard", column_groups |-> NoneArg,
     output_path |-> NoPath, color_schemes |-> NoneArg, show_plots |-> FALSE,
     layout_options |-> NoneArg]

InitFrame ==
    /\ script = "session"
    /\ pc = "idle"
    /\ InitModule
    /\ InitNoDriver
    /\ df \in {Table(2, 1), Table(2, 9), Table(5, 4)}

FramePlotCall ==
    /\ script = "session"
    /\ pc = "idle"
    /\ world.nextFig <= MaxCalls
    /\ \E columns \in FrameColumnArgs, index_name \in IndexNameArgs,
          color_scheme \in FrameColorSchemes, show_plot \in BOOLEAN :
          LET r == plot_bar_chart(world, df, columns, index_name, color_scheme,
                                  LayoutNone, NoPath, show_plot, "none")
          IN  /\ call' = [fn |-> "plot_bar_chart", columns |-> columns,
                          index_name |-> index_name,
                          color_scheme |-> color_scheme, layout |-> LayoutNone,
                          save_path |-> NoPath, show_plot |-> show_plot,
                          fault |-> "none"]
              /\ last' = r
              /\ world' = r.world
              /\ df' = r.df
    /\ UNCHANGED <<script, pc, COLOR_SCHEMES, BG_STYLES, cd, workbook, args, gd,
                   disk, rs>>

FrameDashboardCall ==
    /\ script = "session"
    /\ pc = "idle"
    /\ world.nextFig <= MaxCalls
    /\ call' = FrameDashCall
    /\ cd' = create_dashboard_enter(df, FrameDashCall)
    /\ pc' = "cd_loop"
    /\ UNCHANGED <<script, COLOR_SCHEMES, BG_STYLES, df, world, last, workbook,
                   args, gd, disk, rs>>

\* the caller goes on after a create_dashboard call returned or raised
FrameResume ==
    /\ script = "session"
    /\ pc \in {"returned", "raised"}
    /\ pc' = "idle"
    /\ UNCHANGED <<script, COLOR_SCHEMES, BG_STYLES, df, world, call, last, cd,
                   workbook, args, gd, disk, rs>>

NextFrame ==
    \/ FramePlotCall
    \/ FrameDashboardCall
    \/ CreateDashboardGroup
    \/ CreateDashboardReturn
    \/ FrameResume

SpecFrame == InitFrame /\ [][NextFrame]_vars

\* ------------------------------------------------------------------------
\* SpecFormat: plot_bar_chart labels one bar of one panel
\* ------------------------------------------------------------------------
\* bar heights in thousandths: small, below and above 10, next to an integer
\* from either side, large, negative; none of them lies halfway between two
\* labels or at 0.01 from an integer
FormatThousandths ==
    {0, 4, -4, 52, 340, -340, 2500, 7248, 9996, 10000, 10004, 10996, 12340,
     99996, 100000, 1000000, 1234004, 1234567, 1234996, -12003, -12340}

FormatValues == {NaN} \cup {Num(m) : m \in FormatThousandths}

Chars_c1 == <<"c", "1">>

Chars_npa == <<"N", "P", "A", " ", "%">>

FormatColumns == {Chars_c1, Chars_npa}

FormatEntries ==
    {FormatEntry(FALSE, FALSE, FALSE, 0),
     FormatEntry(TRUE, TRUE, FALSE, 0),
     FormatEntry(TRUE, FALSE, FALSE, 0),
     FormatEntry(FALSE, FALSE, TRUE, 0),
     FormatEntry(FALSE, FALSE, TRUE, 2),
     FormatEntry(FALSE, FALSE, TRUE, 3),
     FormatEntry(TRUE, TRUE, TRUE, 0),
     FormatEntry(TRUE, FALSE, TRUE, 1)}

\* value_format: None, an empty dict, or a dict with an entry for one column
ValueFormatArgs ==
    {NoneArg, Some([c \in {} |-> FormatEntry(FALSE, FALSE, FALSE, 0)])}
        \cup {Some([c \in {key} |-> entry]) :
                 key \in FormatColumns, entry \in FormatEntries}

NoLabel == [is_percentage |-> FALSE, precision |-> NoneArg, label |-> <<>>]

InitFormat ==
    /\ script = "formatter"
    /\ pc = "idle"
    /\ InitNoCleaning
    /\ InitNoDriver
    /\ COLOR_SCHEMES = COLOR_SCHEMES_init
    /\ BG_STYLES = BG_STYLES_init
    /\ world = [figures |-> {}, nextFig |-> 1, saves |-> <<>>]
    /\ cd = NoFrame
    /\ df = Table(0, 0)
    /\ call \in [fn : {"bar_label"}, value_format : ValueFormatArgs,
                  col : FormatColumns, value : FormatValues]
    /\ last = NoLabel

LabelBar ==
    /\ script = "formatter"
    /\ pc = "idle"
    /\ last' = bar_label(call.value_format, call.col, call.value)
    /\ pc' = "returned"
    /\ UNCHANGED <<script, COLOR_SCHEMES, BG_STYLES, df, world, call, cd,
                   workbook, args, gd, disk, rs>>

NextFormat == LabelBar

SpecFormat == InitFormat /\ [][NextFormat]_vars

\* ------------------------------------------------------------------------
\* The driver scripts: what they read and print
\* ------------------------------------------------------------------------
SheetNames == <<<<"A">>, <<"B">>, <<"C">>, <<"D">>>>

\* a sheet: its name, whether it has a Category column, and its data
Sheet(name, category, table) ==
    [name |-> name, category |-> category, table |-> table]

\* pd.read_excel(file, index_col="Category", sheet_name=sheet): raises for a
\* sheet the workbook does not have and for a sheet without a Category column
read_excel(wb, sheet) ==
    IF ~\E k \in 1..Len(wb) : wb[k].name = sheet
    THEN [raised |-> "ValueError", df |-> Table(0, 0)]
    ELSE LET found == wb[CHOOSE k \in 1..Len(wb) : wb[k].name = sheet]
         IN  IF found.category
             THEN [raised |-> "none", df |-> found.table]
             ELSE [raised |-> "ValueError", df |-> Table(0, 0)]

\* excel_file.sheet_names
sheet_names(wb) == [k \in 1..Len(wb) |-> wb[k].name]

Line(kind, sheet, n) == [kind |-> kind, sheet |-> sheet, n |-> n]

Grouped(sheet, columns, column_groups) ==
    [sheet |-> sheet, columns |-> columns, column_groups |-> column_groups]

\* ------------------------------------------------------------------------
\* generate_dashboard.main
\* ------------------------------------------------------------------------
\* groups of three: the slice [i:i+3] under the step 4
RECURSIVE main_group_loop_three(_, _, _)
main_group_loop_three(columns, starts, column_groups) ==
    IF starts = <<>> THEN column_groups
    ELSE LET i == Head(starts)
             group == Slice(columns, i, i + 3)
         IN  main_group_loop_three(columns, Tail(starts),
                 IF group # <<>> THEN Append(column_groups, group)
                 ELSE column_groups)

main_column_groups_three(columns) ==
    main_group_loop_three(columns, Range(Len(columns), 4), <<>>)

\* lines 61-64: the loop over range(0, n_cols, 4)
RECURSIVE main_group_loop(_, _, _)
main_group_loop(columns, starts, column_groups) ==
    IF starts = <<>> THEN column_groups
    ELSE LET i == Head(starts)
             group == Slice(columns, i, i + 4)
         IN  main_group_loop(columns, Tail(starts),
                 IF group # <<>> THEN Append(column_groups, group)
                 ELSE column_groups)

\* lines 56-64
main_column_groups(columns) ==
    main_group_loop(columns, Range(Len(columns), 4), <<>>)

\* line 46: the sheets to process
main_sheets(a, wb) ==
    IF Truthy(a.sheet) THEN <<a.sheet>> ELSE sheet_names(wb)

\* no handler: what the try block raised leaves the loop
main_except_reraise(raised) == raised # "none"

\* lines 85-86: does what the try block raised leave the loop?  No: except
\* Exception catches it
main_except(raised) == FALSE

\* lines 70-81: the arguments of the create_dashboard call
main_dashboard_call(a, sheet, column_groups) ==
    [fn |-> "create_dashboard",
     column_groups |-> Some(column_groups),
     output_path |-> a.output \o <<"/">> \o <<"H", "D", "F", "C", "_">> \o sheet,
     color_schemes |-> Some(<<SchemeName(a.colors)>>),
     show_plots |-> FALSE,
     layout_options |-> NoneArg]

\* ------------------------------------------------------------------------
\* generate_examples.generate_examples
\* ------------------------------------------------------------------------
\* lines 82-85: the loop over range(0, len(df.columns), 4)
RECURSIVE examples_group_loop(_, _, _)
examples_group_loop(columns, starts, column_groups) ==
    IF starts = <<>> THEN column_groups
    ELSE LET j == Head(starts)
             cols == Slice(columns, j, j + 4)
         IN  examples_group_loop(columns, Tail(starts),
                 IF cols # <<>> THEN Append(column_groups, cols)
                 ELSE column_groups)

\* lines 80-85
examples_column_groups(columns) ==
    examples_group_loop(columns, Range(Len(columns), 4), <<>>)

\* line 99: list(COLOR_SCHEMES.keys()), in the order of the dict literal
COLOR_SCHEMES_keys ==
    <<SchemeName("corporate"), SchemeName("vibrant"), SchemeName("pastel"),
      SchemeName("hdfc_brand"), SchemeName("gradient_blue"),
      SchemeName("gradient_red")>>

Chars_examples == <<"e", "x", "p", "o", "r", "t", "s", "/",
                    "e", "x", "a", "m", "p", "l", "e", "s", "/">>

Chars_png == <<".", "p", "n", "g">>

\* lines 93-104: the arguments of the create_dashboard call
examples_dashboard_call(sheet, column_groups) ==
    [fn |-> "create_dashboard",
     column_groups |-> Some(column_groups),
     output_path |-> Chars_examples \o sheet
                         \o <<"_", "d", "a", "s", "h", "b", "o", "a", "r", "d">>,
     color_schemes |-> Some(COLOR_SCHEMES_keys),
     show_plots |-> FALSE,
     layout_options |-> NoneArg]

\* lines 38, 50 and 66: the columns of the three example charts
examples_columns(dfv, chart) ==
    LET n == Len(dfv.columns)
    IN  IF chart = 1 THEN Slice(dfv.columns, 0, Min(4, n))
        ELSE IF chart = 2
        THEN IF n > 4 THEN Slice(dfv.columns, Min(4, n), Min(8, n))
             ELSE Slice(dfv.columns, 0, Min(4, n))
        ELSE Slice(dfv.columns, 0, Min(6, n))

\* lines 39-78: the arguments of the three plot_bar_chart calls
examples_plot_call(dfv, sheet, chart) ==
    [fn |-> "plot_bar_chart",
     columns |-> examples_columns(dfv, chart),
     color_scheme |-> IF chart = 1 THEN SchemeName("corporate")
                      ELSE IF chart = 2 THEN SchemeName("hdfc_brand")
                      ELSE SchemeName("gradient_blue"),
     layout |-> IF chart = 3 THEN LayoutTuple(2, 3) ELSE LayoutNone,
     save_path |-> Chars_examples \o sheet
                       \o (IF chart = 1 THEN <<"_", "b", "a", "s", "i", "c">>
                           ELSE IF chart = 2
                           THEN <<"_", "p", "r", "o", "f", "e", "s", "s", "i",
                                  "o", "n", "a", "l">>
                           ELSE <<"_", "g", "r", "a", "d", "i", "e", "n", "t">>)
                       \o Chars_png,
     show_plot |-> FALSE]

\* ------------------------------------------------------------------------
\* Spec: one run of a driver script over a workbook; a create_dashboard call
\* of the script runs through CreateDashboardGroup and CreateDashboardReturn
\* ------------------------------------------------------------------------
StandardSheet(name) == Sheet(name, TRUE, Table(5, 3))

\* the sheets a workbook may hold: any number of data columns under a
\* Category column, or a sheet without a Category column
SheetTables(name) ==
    {Sheet(name, TRUE, Table(n, 3)) : n \in 0..MaxCols}
        \cup {Sheet(name, FALSE, Table(2, 3))}

\* the workbooks tried: up to MaxSheets sheets, all but at most one of them
\* the five-column sheet
Workbooks ==
    UNION {{wb \in [1..k -> UNION {SheetTables(SheetNames[j]) : j \in 1..k}] :
               /\ \A j \in 1..k : wb[j].name = SheetNames[j]
               /\ \A j, m \in 1..k :
                      (wb[j] # StandardSheet(SheetNames[j])
                          /\ wb[m] # StandardSheet(SheetNames[m])) => j = m}
           : k \in 1..MaxSheets}

Chars_exports == <<".", "/", "e", "x", "p", "o", "r", "t", "s">>

\* --sheet: absent, empty, a sheet of the workbook, or a name it lacks
SheetArgs == {NoPath, <<>>, <<"A">>, <<"B">>, <<"Z">>}

Init ==
    /\ script \in {"generate_dashboard", "generate_examples"}
    /\ pc = "start"
    /\ InitModule
    /\ df = Table(0, 0)
    /\ workbook \in Workbooks
    /\ args \in IF script = "generate_dashboard"
                THEN {[sheet |-> sh, output |-> Chars_exports,
                       colors |-> "hdfc_brand"] : sh \in SheetArgs}
                ELSE {NoArgs}
    /\ gd = NoDriver

libVars == <<COLOR_SCHEMES, BG_STYLES, disk, rs>>

\* generate_dashboard lines 37-46
MainStart ==
    /\ script = "generate_dashboard"
    /\ pc = "start"
    /\ gd' = [gd EXCEPT !.sheets = main_sheets(args, workbook)]
    /\ pc' = "loop"
    /\ UNCHANGED <<script, libVars, df, world, call, last, cd, workbook, args>>

\* generate_dashboard lines 49-81, one sheet: up to the create_dashboard
\* call, or through the except clause when the sheet cannot be loaded
MainSheetBegin ==
    /\ script = "generate_dashboard"
    /\ pc = "loop"
    /\ gd.k < Len(gd.sheets)
    /\ LET sheet == gd.sheets[gd.k + 1]
           rd == read_excel(workbook, sheet)
           column_groups == main_column_groups(rd.df.columns)
           a == main_dashboard_call(args, sheet, column_groups)
       IN  IF rd.raised # "none"
           THEN /\ gd' = [gd EXCEPT
                            !.k = @ + 1,
                            !.raised = Append(@, rd.raised),
                            !.log = @ \o <<Line("processing", sheet, 0)>>
                                      \o (IF main_except(rd.raised) THEN <<>>
                                          ELSE <<Line("error", sheet, 0)>>)]
                /\ pc' = IF main_except(rd.raised) THEN "crashed" ELSE "loop"
                /\ UNCHANGED <<df, call, cd>>
           ELSE /\ df' = rd.df
                /\ gd' = [gd EXCEPT
                            !.log = Append(@, Line("processing", sheet, 0)),
                            !.grouped = Append(@, Grouped(sheet, rd.df.columns,
                                                          column_groups))]
                /\ call' = a
                /\ cd' = create_dashboard_enter(rd.df, a)
                /\ pc' = "cd_loop"
    /\ UNCHANGED <<script, libVars, world, last, workbook, args>>

\* generate_dashboard lines 83-86, one sheet: after create_dashboard returned
\* or raised
MainSheetEnd ==
    /\ script = "generate_dashboard"
    /\ pc \in {"returned", "raised"}
    /\ LET sheet == gd.sheets[gd.k + 1]
       IN  IF pc = "returned"
           THEN /\ gd' = [gd EXCEPT
                            !.k = @ + 1,
                            !.raised = Append(@, "none"),
                            !.log = Append(@, Line("generated", sheet,
                                                   Len(cd.results)))]
                /\ pc' = "loop"
           ELSE /\ gd' = [gd EXCEPT
                            !.k = @ + 1,
                            !.raised = Append(@, cd.raised),
                            !.log = @ \o (IF main_except(cd.raised) THEN <<>>
                                          ELSE <<Line("error", sheet, 0)>>)]
                /\ pc' = IF main_except(cd.raised) THEN "crashed" ELSE "loop"
    /\ UNCHANGED <<script, libVars, df, world, call, last, cd, workbook, args>>

\* generate_dashboard line 88
MainFinish ==
    /\ script = "generate_dashboard"
    /\ pc = "loop"
    /\ gd.k >= Len(gd.sheets)
    /\ gd' = [gd EXCEPT !.log = Append(@, Line("exported", args.output, 0))]
    /\ pc' = "done"
    /\ UNCHANGED <<script, libVars, df, world, call, last, cd, workbook, args>>

\* generate_examples lines 17-26
ExamplesStart ==
    /\ script = "generate_examples"
    /\ pc = "start"
    /\ gd' = [gd EXCEPT !.sheets = sheet_names(workbook)]
    /\ pc' = "loop"
    /\ UNCHANGED <<script, libVars, df, world, call, last, cd, workbook, args>>

\* generate_examples lines 31-35, one sheet: nothing catches what
\* read_excel raises
ExamplesRead ==
    /\ script = "generate_examples"
    /\ pc = "loop"
    /\ gd.k < Len(gd.sheets)
    /\ LET sheet == gd.sheets[gd.k + 1]
           rd == read_excel(workbook, sheet)
       IN  /\ gd' = [gd EXCEPT
                       !.log = Append(@, Line("processing", sheet, 0)),
                       !.raised = IF rd.raised # "none"
                                  THEN Append(@, rd.raised) ELSE @]
           /\ df' = IF rd.raised # "none" THEN df ELSE rd.df
           /\ pc' = IF rd.raised # "none" THEN "crashed" ELSE "chart1"
    /\ UNCHANGED <<script, libVars, world, call, last, cd, workbook, args>>

\* generate_examples lines 37-78: the example chart number `chart'; the
\* second and the third are skipped when they have no columns
ExamplesChart(chart) ==
    /\ script = "generate_examples"
    /\ pc = <<"chart1", "chart2", "chart3">>[chart]
    /\ LET sheet == gd.sheets[gd.k + 1]
           a == examples_plot_call(df, sheet, chart)
       IN  IF chart > 1 /\ ~(Len(a.columns) > 0)
           THEN /\ pc' = <<"chart2", "chart3", "dashboard">>[chart]
                /\ UNCHANGED <<call, last, world, gd, df>>
           ELSE \E fault \in {"none", "draw", "save"} :
                   LET r == plot_bar_chart(world, df, a.columns, None,
                                           a.color_scheme, a.layout, a.save_path,
                                           a.show_plot, fault)
                   IN  /\ call' = a
                       /\ last' = r
                       /\ world' = r.world
                       /\ df' = r.df
                       /\ gd' = [gd EXCEPT !.raised = IF r.raised # "none"
                                                      THEN Append(@, r.raised)
                                                      ELSE @]
                       /\ pc' = IF r.raised # "none" THEN "crashed"
                                ELSE <<"chart2", "chart3", "dashboard">>[chart]
    /\ UNCHANGED <<script, libVars, cd, workbook, args>>

\* generate_examples lines 80-104: up to the create_dashboard call
ExamplesDashboard ==
    /\ script = "generate_examples"
    /\ pc = "dashboard"
    /\ LET sheet == gd.sheets[gd.k + 1]
           column_groups == examples_column_groups(df.columns)
           a == examples_dashboard_call(sheet, column_groups)
       IN  /\ gd' = [gd EXCEPT !.grouped = Append(@, Grouped(sheet, df.columns,
                                                             column_groups))]
           /\ call' = a
           /\ cd' = create_dashboard_enter(df, a)
    /\ pc' = "cd_loop"
    /\ UNCHANGED <<script, libVars, df, world, last, workbook, args>>

\* generate_examples line 106, or the end of the script on what
\* create_dashboard raised
ExamplesSheetEnd ==
    /\ script = "generate_examples"
    /\ pc \in {"returned", "raised"}
    /\ LET sheet == gd.sheets[gd.k + 1]
       IN  IF pc = "returned"
           THEN /\ gd' = [gd EXCEPT
                            !.k = @ + 1,
                            !.log = Append(@, Line("generated", sheet,
                                                   3 + Len(cd.results)))]
                /\ pc' = "loop"
           ELSE /\ gd' = [gd EXCEPT !.raised = Append(@, cd.raised)]
                /\ pc' = "crashed"
    /\ UNCHANGED <<script, libVars, df, world, call, last, cd, workbook, args>>

\* generate_examples line 108
ExamplesFinish ==
    /\ script = "generate_examples"
    /\ pc = "loop"
    /\ gd.k >= Len(gd.sheets)
    /\ gd' = [gd EXCEPT !.log = Append(@, Line("exported", Chars_examples, 0))]
    /\ pc' = "done"
    /\ UNCHANGED <<script, libVars, df, world, call, last, cd, workbook, args>>

Next ==
    \/ MainStart
    \/ MainSheetBegin
    \/ MainSheetEnd
    \/ MainFinish
    \/ ExamplesStart
    \/ ExamplesRead
    \/ \E chart \in 1..3 : ExamplesChart(chart)
    \/ ExamplesDashboard
    \/ ExamplesSheetEnd
    \/ ExamplesFinish
    \/ CreateDashboardGroup
    \/ CreateDashboardReturn

Spec == Init /\ [][Next]_vars

\* ========================================================================
\* Properties
\* ========================================================================

\* the palette a color_scheme argument stands for, as the documentation of
\* plot_bar_chart describes it
PaletteOf(color_scheme) ==
    IF color_scheme.kind = "list" THEN color_scheme.colors
    ELSE IF color_scheme.name \in {"corporate", "vibrant", "pastel", "hdfc_brand",
                                   "gradient_blue", "gradient_red"}
         THEN COLOR_SCHEMES_init[color_scheme.name]
         ELSE COLOR_SCHEMES_init.corporate

\* a plot_bar_chart call that asked _get_gradient_colors for n >= 1 colors of
\* a named scheme or a non-empty list
ColorsRequested ==
    /\ script = "caller"
    /\ pc \in {"returned", "raised"}
    /\ call.fn = "plot_bar_chart"
    /\ last.valid_columns # <<>>
    /\ df.nrows >= 1
    /\ PaletteOf(call.color_scheme) # <<>>

\* C4: _get_gradient_colors(color_scheme, n) returns exactly n colors for
\* n >= 1 and a scheme name, an unknown name (corporate) or a non-empty list:
\* the first n colors of the palette when it has at least n, otherwise n
\* interpolated colors, and the interpolation never divides by zero.
C4_ExactlyNColors ==
    ColorsRequested =>
        LET palette == PaletteOf(call.color_scheme)
            n == df.nrows
        IN  /\ last.raised \notin {"IndexError", "ZeroDivisionError"}
            /\ Len(last.colors) = n
            /\ Len(palette) >= n =>
                   \A k \in 1..n : last.colors[k] = palette[k]
            /\ Len(palette) < n =>
                   \A k \in 1..n : /\ last.colors[k].kind = "rgba"
                                   /\ last.colors[k].den # 0

\* C4 witness: a caller's three-color list is stretched over more rows
C4_Witness ==
    /\ ColorsRequested
    /\ call.color_scheme.kind = "list"
    /\ Len(call.color_scheme.colors) = 3
    /\ df.nrows > 3
    /\ Len(last.colors) = df.nrows
    /\ last.colors[df.nrows].kind = "rgba"

\* the requested columns that the table has, in the requested order
RECURSIVE Existing(_, _)
Existing(requested, table_columns) ==
    IF requested = <<>> THEN <<>>
    ELSE (IF Head(requested) \in {table_columns[k] : k \in 1..Len(table_columns)}
          THEN <<Head(requested)>> ELSE <<>>)
         \o Existing(Tail(requested), table_columns)

IsPrefix(s, t) == Len(s) <= Len(t) /\ s = SubSeq(t, 1, Len(s))

\* C6: plot_bar_chart plots only the requested columns that exist, skipping
\* the missing ones and keeping the requested order; if none exists it raises
\* ValueError before any figure is created and before any file is written.
C6_OnlyExistingColumns ==
    [][(script = "caller" /\ pc = "idle" /\ call'.fn = "plot_bar_chart") =>
          LET existing == Existing(call'.columns, df.columns)
          IN  /\ existing = <<>> =>
                    /\ pc' = "raised"
                    /\ last'.raised = "ValueError"
                    /\ world' = world
              /\ existing # <<>> => last'.raised # "ValueError"
              /\ pc' = "returned" =>
                    /\ IsPrefix(last'.drawn, existing)
                    /\ call'.layout.kind # "tuple" => last'.drawn = existing]_vars

\* C6 witness: two of four requested columns are missing and are skipped
C6_Witness ==
    /\ script = "caller"
    /\ pc = "returned"
    /\ call.fn = "plot_bar_chart"
    /\ call.columns = <<"zz", "c3", "yy", "c1">>
    /\ last.drawn = <<"c3", "c1">>

\* the column groups a create_dashboard call works on
GroupsOfCall ==
    IF call.column_groups.isNone THEN cd.column_groups ELSE call.column_groups.v

\* C7: when every group renders, create_dashboard returns one (fig, axes)
\* entry per column group, in the order of the groups.
C7_OneResultPerGroup ==
    (script = "caller" /\ pc = "returned" /\ call.fn = "create_dashboard") =>
        /\ Len(cd.results) = Len(GroupsOfCall)
        /\ \A j \in 1..Len(cd.results) : cd.results[j].fig = j

\* C7 witness: a call with three groups has returned
C7_Witness ==
    /\ script = "caller"
    /\ pc = "returned"
    /\ call.fn = "create_dashboard"
    /\ Len(GroupsOfCall) = 3
    /\ Len(cd.results) = 3

Chars_group == <<"_", "g", "r", "o", "u", "p">>

\* the save path the documentation gives the group at position i
ClaimedSavePath(output_path, i) ==
    IF output_path = NoPath \/ output_path = <<>> THEN NoPath
    ELSE IF \E suffix \in ImageSuffixes : EndsWith(Lower(output_path), suffix)
    THEN LET suffix == CHOOSE x \in ImageSuffixes : EndsWith(Lower(output_path), x)
             base == SubSeq(output_path, 1, Len(output_path) - Len(suffix))
             ext == SubSeq(output_path, Len(output_path) - Len(suffix) + 2,
                           Len(output_path))
         IN  base \o Chars_group \o Str(i + 1) \o <<".">> \o ext
    ELSE output_path \o Chars_group \o Str(i + 1) \o <<".", "p", "n", "g">>

\* C8: the image of the group at position i goes to <base>_group<i+1>.<ext>
\* for an output path with an image extension (any case), to
\* <output_path>_group<i+1>.png otherwise, nowhere when output_path is None or
\* empty; two groups of one call never get the same path.
C8_SavePaths ==
    [][(script = "caller" /\ pc = "cd_loop" /\ cd'.i = cd.i + 1) =>
          LET claimed == ClaimedSavePath(call.output_path, cd.i)
          IN  /\ last'.saved = claimed
              /\ world'.saves = IF claimed = NoPath THEN world.saves
                                ELSE Append(world.saves, claimed)
              /\ \A j, k \in 1..Len(world'.saves) :
                     j # k => world'.saves[j] # world'.saves[k]]_vars

\* C8 witness: two groups saved under an output path with two dots
C8_Witness ==
    /\ script = "caller"
    /\ call.fn = "create_dashboard"
    /\ call.output_path = <<"v", ".", "1", ".", "j", "p", "e", "g">>
    /\ Len(world.saves) >= 2
    /\ world.saves[2] = <<"v", ".", "1", "_", "g", "r", "o", "u", "p", "2",
                          ".", "j", "p", "e", "g">>

\* the schemes a create_dashboard call cycles through
SchemesOfCall ==
    IF call.color_schemes.isNone
    THEN <<SchemeName("corporate"), SchemeName("hdfc_brand"),
           SchemeName("vibrant"), SchemeName("pastel"),
           SchemeName("gradient_blue"), SchemeName("gradient_red")>>
    ELSE call.color_schemes.v

\* C9: the group at position i is drawn with color_schemes[i mod len], the
\* six default schemes being cycled in their order when color_schemes is None.
C9_SchemesCycle ==
    (script = "caller" /\ call.fn = "create_dashboard") =>
        \A j \in 1..Len(cd.used) :
            cd.used[j] = SchemesOfCall[((j - 1) % Len(SchemesOfCall)) + 1]

\* C9 witness: the seventh group wraps around to the first default scheme
C9_Witness ==
    /\ script = "caller"
    /\ call.fn = "create_dashboard"
    /\ call.color_schemes.isNone
    /\ Len(cd.used) = 7
    /\ cd.used[7] = SchemeName("corporate")
    /\ cd.used[6] = SchemeName("gradient_red")

\* ------------------------------------------------------------------------
\* Properties of the driver scripts
\* ------------------------------------------------------------------------
\* C1: for a sheet with N >= 0 data columns the grouping loop of the driver
\* scripts produces exactly ceil(N/4) groups, each of 1 to 4 columns, whose
\* concatenation in order is the sheet's column list.
C1_GroupsOfFour ==
    \A j \in 1..Len(gd.grouped) :
        LET N == Len(gd.grouped[j].columns)
            groups == gd.grouped[j].column_groups
        IN  /\ 4 * Len(groups) >= N
            /\ 4 * (Len(groups) - 1) < N
            /\ Len(groups) >= 0
            /\ \A g \in 1..Len(groups) : Len(groups[g]) \in 1..4
            /\ Concat(groups) = gd.grouped[j].columns

\* C1 witness: nine columns were grouped as 4 + 4 + 1
C1_Witness ==
    \E j \in 1..Len(gd.grouped) :
        /\ Len(gd.grouped[j].columns) = 9
        /\ Len(gd.grouped[j].column_groups) = 3
        /\ Len(gd.grouped[j].column_groups[3]) = 1

\* C3: in generate_dashboard.main an exception raised while loading or
\* rendering a sheet is caught and reported with an error line (the script
\* never ends on it), every later sheet is still processed, and the final
\* "All dashboards exported" message comes after the last sheet whatever
\* subset of the sheets failed: the console holds a "Processing" line and
\* then a "Generated" or an "Error" line for each sheet handled so far, an
\* error line exactly for the sheets whose try block raised.
C3_BestEffort ==
    script = "generate_dashboard" =>
        /\ pc \in {"start", "loop", "cd_loop", "returned", "raised", "done"}
        /\ gd.k <= Len(gd.sheets)
        /\ Len(gd.raised) = gd.k
        /\ Len(gd.log) >= 2 * gd.k
        /\ \A j \in 1..gd.k :
              /\ gd.log[2 * j - 1] = Line("processing", gd.sheets[j], 0)
              /\ gd.log[2 * j].sheet = gd.sheets[j]
              /\ gd.log[2 * j].kind =
                     IF gd.raised[j] = "none" THEN "generated" ELSE "error"
              /\ read_excel(workbook, gd.sheets[j]).raised # "none"
                     => gd.raised[j] # "none"
        /\ pc = "done" =>
              /\ gd.k = Len(gd.sheets)
              /\ Len(gd.log) = 2 * gd.k + 1
              /\ gd.log[Len(gd.log)].kind = "exported"

\* C3 witness: the first of two sheets failed, the second was rendered, and
\* the script finished
C3_Witness ==
    /\ script = "generate_dashboard"
    /\ pc = "done"
    /\ Len(gd.sheets) = 2
    /\ gd.raised[1] # "none"
    /\ gd.log[2].kind = "error"
    /\ gd.log[4].kind = "generated"
    /\ gd.log[4].n >= 1

\* the sheets of the "Processing sheet" lines, in the order printed
RECURSIVE ProcessedSheets(_)
ProcessedSheets(log) ==
    IF log = <<>> THEN <<>>
    ELSE (IF Head(log).kind = "processing" THEN <<Head(log).sheet>> ELSE <<>>)
         \o ProcessedSheets(Tail(log))

\* C10: generate_dashboard.main processes exactly the sheet named by --sheet
\* when that flag is given, and otherwise every sheet of the workbook exactly
\* once, in workbook order.
C10_SelectedSheets ==
    (script = "generate_dashboard" /\ pc = "done") =>
        ProcessedSheets(gd.log) =
            IF args.sheet # NoPath THEN <<args.sheet>>
            ELSE [k \in 1..Len(workbook) |-> workbook[k].name]

\* the grid the documentation gives for n valid columns
AutoGrid(n) ==
    IF n <= 2 THEN <<1, n>>
    ELSE IF n <= 4 THEN <<2, 2>>
    ELSE <<(n + 2) \div 3, 3>>

\* a plot_bar_chart call that left the layout to the function and returned
AutoLayoutDrawn ==
    /\ script = "caller"
    /\ pc = "returned"
    /\ call.fn = "plot_bar_chart"
    /\ call.layout \in {LayoutNone, LayoutAuto}

\* C12: with layout None or 'auto' the grid is (1, n) for n <= 2 valid
\* columns, (2, 2) for n = 3 or 4 and (ceil(n/3), 3) for n >= 5; it has at
\* least n panels for every n >= 1, every valid column is drawn, and n
\* panels are left once the unused ones are removed.
C12_AutoLayout ==
    /\ \A n \in 1..MaxCols :
          /\ ChooseLayout(LayoutNone, n) = AutoGrid(n)
          /\ ChooseLayout(LayoutAuto, n) = AutoGrid(n)
          /\ AutoGrid(n)[1] * AutoGrid(n)[2] >= n
    /\ AutoLayoutDrawn =>
          LET n == Len(last.valid_columns)
          IN  /\ n >= 1
              /\ last.layout = AutoGrid(n)
              /\ last.drawn = last.valid_columns
              /\ last.panels = n

\* C12 witness: five valid columns drawn on a 2 x 3 grid, one panel removed
C12_Witness ==
    /\ AutoLayoutDrawn
    /\ Len(last.valid_columns) = 5
    /\ last.layout = <<2, 3>>
    /\ Len(last.drawn) = 5
    /\ last.panels = 5

\* a plot_bar_chart call with a grid of its own that is too small for the
\* valid columns, on a table with rows, with nothing failing around it
SmallLayoutCall ==
    /\ script = "caller"
    /\ pc \in {"returned", "raised"}
    /\ call.fn = "plot_bar_chart"
    /\ call.layout.kind = "tuple"
    /\ call.layout.rows * call.layout.cols >= 1
    /\ call.layout.rows * call.layout.cols < Len(last.valid_columns)
    /\ call.fault = "none"
    /\ df.nrows >= 1
    /\ PaletteOf(call.color_scheme) # <<>>

\* C13: an explicit layout (rows, cols) with fewer panels than valid columns
\* raises nothing: the first rows*cols valid columns are drawn, the others
\* are left out, and the figure has min(valid columns, rows*cols) panels.
C13_SmallLayoutTruncates ==
    SmallLayoutCall =>
        LET k == call.layout.rows * call.layout.cols
        IN  /\ last.raised = "none"
            /\ last.drawn = SubSeq(last.valid_columns, 1, k)
            /\ last.panels = Min(Len(last.valid_columns), k)
            /\ last.layout = <<call.layout.rows, call.layout.cols>>

\* C13 witness: six valid columns on a 1 x 2 grid, two of them drawn
C13_Witness ==
    /\ SmallLayoutCall
    /\ Len(last.valid_columns) = 6
    /\ last.raised = "none"
    /\ Len(last.drawn) = 2
    /\ last.panels = 2

\* the images on disk are those of the first n groups, in group order
SavedGroups(n) ==
    world.saves = IF ClaimedSavePath(call.output_path, 0) = NoPath THEN <<>>
                  ELSE [j \in 1..n |-> ClaimedSavePath(call.output_path, j - 1)]

\* C17: create_dashboard takes the groups in order and saves the image of a
\* group before it starts the next; when group k raises the exception goes
\* to the caller, no result list is returned, the images of the groups
\* 1..k-1 stay on disk and no image is written for group k or a later one.
C17_GroupsInOrder ==
    [][(script = "caller" /\ call'.fn = "create_dashboard") =>
          /\ cd'.i \in {cd.i, cd.i + 1}
          /\ Len(cd'.results) = cd'.i
          /\ SavedGroups(cd.i)' 
          /\ cd'.raised # "none" <=> pc' = "raised"
          /\ pc = "raised" => pc' = "raised"
          /\ pc' = "returned" => cd'.i = Len(cd'.column_groups)]_vars

\* C17 witness: the third group raised after two images were saved
C17_Witness ==
    /\ script = "caller"
    /\ call.fn = "create_dashboard"
    /\ pc = "raised"
    /\ last.raised = "ValueError"
    /\ cd.i = 2
    /\ Len(cd.column_groups) >= 4
    /\ Len(world.saves) = 2
    /\ world.saves[2] = ClaimedSavePath(call.output_path, 1)

\* C18: a figure that plot_bar_chart opens with show_plot=False is closed
\* when control leaves the function, by return or by an exception raised
\* after the figure was created, so no figure stays open.
C18_FiguresClosed ==
    (/\ script = "caller"
     /\ pc \in {"returned", "raised"}
     /\ call.fn = "plot_bar_chart"
     /\ ~call.show_plot) => world.figures = {}

\* a bar was labelled
Labelled == script = "formatter" /\ pc = "returned"

\* the entry of value_format for the column of the bar, if it has one
HasFormatEntry ==
    /\ ~call.value_format.isNone
    /\ call.col \in DOMAIN call.value_format.v

\* C14: a column is percentage data exactly when its name contains '%',
\* unless value_format has an entry for the column: then is_percentage of
\* the entry decides, and an entry without that key means not-percentage
\* even for a name with '%'.  The label of a percentage column, and only
\* of one, ends in '%'.
C14_PercentageColumns ==
    Labelled =>
        LET named == \E k \in 1..Len(call.col) : call.col[k] = "%"
            expected == IF HasFormatEntry
                        THEN LET entry == call.value_format.v[call.col]
                             IN  entry.has_is_percentage /\ entry.is_percentage
                        ELSE named
        IN  /\ last.is_percentage = expected
            /\ ~call.value.nan =>
                   (last.label[Len(last.label)] = "%") = expected

\* C14 witness: a column named with '%' whose entry has no is_percentage
\* key is labelled as a plain number
C14_Witness ==
    /\ Labelled
    /\ call.col = Chars_npa
    /\ HasFormatEntry
    /\ ~call.value_format.v[call.col].has_is_percentage
    /\ call.value = Num(340)
    /\ ~last.is_percentage
    /\ last.label = <<"0", ".", "3", "4">>

\* the number of characters of a label after its '.', 0 without one
Decimals(label) ==
    IF \E k \in 1..Len(label) : label[k] = "."
    THEN Len(label) - (CHOOSE k \in 1..Len(label) : label[k] = ".")
    ELSE 0

\* C15: with a precision p in value_format for a non-percentage column,
\* the label of every non-missing value has exactly p decimal places (p = 0:
\* an integer with thousands separators); the magnitude decides the
\* precision only when none is given.
C15_PrecisionHonoured ==
    (/\ Labelled
     /\ HasFormatEntry
     /\ ~last.is_percentage
     /\ ~call.value.nan
     /\ call.value_format.v[call.col].has_precision) =>
        Decimals(last.label) = call.value_format.v[call.col].precision

\* C16: a non-percentage value v >= 10 within 0.01 of an integer n is
\* labelled with n, the nearest integer, with thousands separators, from
\* slightly above n and from slightly below n alike; NaN is labelled "N/A".
C16_NearestInteger ==
    Labelled =>
        /\ call.value.nan => last.label = <<"N", "/", "A">>
        /\ (/\ ~call.value.nan
            /\ ~last.is_percentage
            /\ call.value.m >= 10000
            /\ \E n \in 10..2000 : Abs(call.value.m - 1000 * n) < 10) =>
               LET n == CHOOSE n \in 10..2000 :
                            Abs(call.value.m - 1000 * n) < 10
               IN  last.label = FormatInt(n)

\* C11: no plot_bar_chart or create_dashboard call, in any sequence of
\* calls, changes the caller's table (rows, columns, index name, also when
\* index_name is passed: the name goes to the drawn copy) or the module
\* tables COLOR_SCHEMES and BG_STYLES, and the palette a call draws with is
\* the one the module defined, whatever calls came before.
C11_CallsLeaveInputs ==
    [][/\ df' = df
       /\ COLOR_SCHEMES' = COLOR_SCHEMES_init
       /\ BG_STYLES' = BG_STYLES_init
       /\ (last' # last /\ last'.raised = "none") =>
              LET palette == PaletteOf(IF call'.fn = "plot_bar_chart"
                                       THEN call'.color_scheme
                                       ELSE cd'.used[Len(cd'.used)])
                  n == df.nrows
              IN  /\ Len(last'.colors) = n
                  /\ last'.colors[1] =
                         IF Len(palette) >= n THEN palette[1]
                         ELSE Rgba(palette[1].hex, palette[Len(palette)].hex,
                                   0, n - 1)
                  /\ last'.data.index_name =
                         IF call'.fn = "plot_bar_chart"
                               /\ call'.index_name # None
                         THEN call'.index_name ELSE df.index_name]_vars

\* C11 witness: the second figure was drawn by a call that passed
\* index_name, and the caller's table still has its own index name
C11_Witness ==
    /\ script = "session"
    /\ world.nextFig = 3
    /\ call.fn = "plot_bar_chart"
    /\ call.index_name = "Segment"
    /\ last.raised = "none"
    /\ last.fig = 2
    /\ last.data.index_name = "Segment"
    /\ df.index_name = "Category"

\* ------------------------------------------------------------------------
\* remove_subtotal.py
\* ------------------------------------------------------------------------
\* a sheet of a workbook file: its header row and its data rows
RawSheet(name, columns, rows) ==
    [name |-> name, columns |-> columns, rows |-> rows]

\* position of x in the list s that contains it
IndexOf(s, x) == CHOOSE k \in 1..Len(s) : s[k] = x

\* the list s without its p-th element
Without(s, p) == SubSeq(s, 1, p - 1) \o SubSeq(s, p + 1, Len(s))

\* lines 29-34: pd.read_excel(..., index_col="Category") raises for a sheet
\* without a Category column, and the sheet is then read with a RangeIndex
clean_read(sheet) ==
    IF Contains(sheet.columns, "Category")
    THEN LET p == IndexOf(sheet.columns, "Category")
         IN  [has_category_index |-> TRUE,
              df |-> [index |-> [j \in 1..Len(sheet.rows) |-> sheet.rows[j][p]],
                      columns |-> Without(sheet.columns, p),
                      rows |-> [j \in 1..Len(sheet.rows) |->
                                   Without(sheet.rows[j], p)]]]
    ELSE [has_category_index |-> FALSE,
          df |-> [index |-> [j \in 1..Len(sheet.rows) |-> "range"],
                  columns |-> sheet.columns,
                  rows |-> sheet.rows]]

\* the rows of dfv at the positions that satisfy keep, in order
RECURSIVE KeepRows(_, _, _)
KeepRows(dfv, keep(_), j) ==
    IF j > Len(dfv.rows) THEN [dfv EXCEPT !.index = <<>>, !.rows = <<>>]
    ELSE LET rest == KeepRows(dfv, keep, j + 1)
         IN  IF keep(j)
             THEN [rest EXCEPT !.index = <<dfv.index[j]>> \o @,
                               !.rows = <<dfv.rows[j]>> \o @]
             ELSE rest

\* a drop that removes the first row carrying the label only
drop_first(dfv, label) ==
    KeepRows(dfv, LAMBDA j : \/ dfv.index[j] # label
                             \/ \E m \in 1..(j - 1) : dfv.index[m] = label, 1)

\* line 40: df.drop(label) removes every row carrying the label
drop(dfv, label) == KeepRows(dfv, LAMBDA j : dfv.index[j] # label, 1)

\* lines 44-48: for each column, remove the rows whose cell is "Sub total"
RECURSIVE clean_columns(_, _)
clean_columns(dfv, c) ==
    IF c > Len(dfv.columns) THEN dfv
    ELSE LET mask == [j \in 1..Len(dfv.rows) |-> dfv.rows[j][c] = "Sub total"]
         IN  IF \E j \in 1..Len(mask) : mask[j]
             THEN clean_columns(KeepRows(dfv, LAMBDA j : ~mask[j], 1), c + 1)
             ELSE clean_columns(dfv, c + 1)

\* lines 38-48
remove_sub_total(rd) ==
    IF rd.has_category_index /\ Contains(rd.df.index, "Sub total")
    THEN drop(rd.df, "Sub total")
    ELSE IF ~rd.has_category_index
            /\ \E j \in 1..Len(rd.df.rows) : Contains(rd.df.rows[j], "Sub total")
    THEN clean_columns(rd.df, 1)
    ELSE rd.df

\* line 53: df.to_excel(writer, sheet_name, index=has_category_index); the
\* index goes to the first column, under its name
to_excel(dfv, sheet_name, index) ==
    IF index
    THEN RawSheet(sheet_name, <<"Category">> \o dfv.columns,
                  [j \in 1..Len(dfv.rows) |-> <<dfv.index[j]>> \o dfv.rows[j]])
    ELSE RawSheet(sheet_name, dfv.columns, dfv.rows)

\* the sheet of the workbook wb that has the name
SheetNamed(wb, name) == wb[CHOOSE k \in 1..Len(wb) : wb[k].name = name]

\* ------------------------------------------------------------------------
\* SpecClean: one run of remove_subtotal.py in a directory with HDFC.xlsx
\* ------------------------------------------------------------------------
Cells == {"Sub total", "a", "b"}

CleanRows == [1..2 -> Cells]

CleanHeaders == {<<"Category", "Value">>, <<"Value", "Category">>,
                 <<"Name", "Value">>}

\* the sheets tried: every header, with up to MaxCleanRows rows of cells
VariedSheets ==
    {RawSheet("Data", h, rows) :
        h \in CleanHeaders,
        rows \in UNION {[1..n -> CleanRows] : n \in 0..MaxCleanRows}}

TotalsSheet ==
    RawSheet("Totals", <<"Category", "Value">>,
             <<<<"a", "b">>, <<"Sub total", "a">>, <<"b", "Sub total">>>>)

\* the workbooks tried: a varied sheet, alone or next to another sheet
CleanWorkbooks ==
    UNION {{<<v>>, <<v, TotalsSheet>>, <<TotalsSheet, v>>} : v \in VariedSheets}

OldBackup == <<RawSheet("Old", <<"Category">>, <<>>)>>

InitClean ==
    /\ script = "remove_subtotal"
    /\ pc = "start"
    /\ InitNoDriver
    /\ COLOR_SCHEMES = COLOR_SCHEMES_init
    /\ BG_STYLES = BG_STYLES_init
    /\ world = [figures |-> {}, nextFig |-> 1, saves |-> <<>>]
    /\ call = NoCall
    /\ last = NoResult
    /\ cd = NoFrame
    /\ df = Table(0, 0)
    /\ disk \in {[original |-> wb, backup |-> b, modified |-> <<>>] :
                    wb \in CleanWorkbooks, b \in {<<>>, OldBackup}}
    /\ rs = NoCleaning

vizVars == <<COLOR_SCHEMES, BG_STYLES, df, world, call, last, cd>>

driverVars == <<workbook, args, gd>>

\* the copy made on every run
make_backup_always(d) == [d EXCEPT !.backup = d.original]

\* lines 10-12: shutil.copy2 when no backup file exists
make_backup(d) ==
    IF d.backup = <<>> THEN [d EXCEPT !.backup = d.original] ELSE d

\* lines 9-13: the backup, made when there is none
RemoveBackup ==
    /\ script = "remove_subtotal"
    /\ pc = "start"
    /\ disk' = make_backup(disk)
    /\ pc' = "backed_up"
    /\ UNCHANGED <<script, vizVars, driverVars, rs>>

\* lines 15-22: the sheet names, and the writer of HDFC_modified.xlsx
RemoveOpen ==
    /\ script = "remove_subtotal"
    /\ pc = "backed_up"
    /\ rs' = [sheet_names |-> [k \in 1..Len(disk.original) |-> disk.original[k].name],
              k |-> 0, writer |-> <<>>]
    /\ pc' = "loop"
    /\ UNCHANGED <<script, vizVars, driverVars, disk>>

\* lines 25-53, one sheet
RemoveSheet ==
    /\ script = "remove_subtotal"
    /\ pc = "loop"
    /\ rs.k < Len(rs.sheet_names)
    /\ LET sheet_name == rs.sheet_names[rs.k + 1]
           rd == clean_read(SheetNamed(disk.original, sheet_name))
           cleaned == remove_sub_total(rd)
       IN  rs' = [rs EXCEPT !.k = @ + 1,
                            !.writer = Append(@, to_excel(cleaned, sheet_name,
                                                          rd.has_category_index))]
    /\ UNCHANGED <<script, pc, vizVars, driverVars, disk>>

\* line 22, leaving the with block: the writer saves HDFC_modified.xlsx
RemoveClose ==
    /\ script = "remove_subtotal"
    /\ pc = "loop"
    /\ rs.k >= Len(rs.sheet_names)
    /\ disk' = [disk EXCEPT !.modified = rs.writer]
    /\ pc' = "done"
    /\ UNCHANGED <<script, vizVars, driverVars, rs>>

\* the script is run again, on the files the last run left
RemoveAgain ==
    /\ script = "remove_subtotal"
    /\ pc = "done"
    /\ rs' = NoCleaning
    /\ pc' = "start"
    /\ UNCHANGED <<script, vizVars, driverVars, disk>>

NextClean ==
    RemoveBackup \/ RemoveOpen \/ RemoveSheet \/ RemoveClose \/ RemoveAgain

SpecClean == InitClean /\ [][NextClean]_vars

\* ------------------------------------------------------------------------
\* Properties of remove_subtotal.py
\* ------------------------------------------------------------------------
\* a row of "Sub total": by its Category label in a sheet that has a Category
\* column, by any of its cells in a sheet that has none
IsSubTotalRow(sheet, row) ==
    IF \E c \in 1..Len(sheet.columns) : sheet.columns[c] = "Category"
    THEN \E c \in 1..Len(sheet.columns) :
             sheet.columns[c] = "Category" /\ row[c] = "Sub total"
    ELSE \E c \in 1..Len(row) : row[c] = "Sub total"

\* a header or a row as it is written: the Category cell first
CategoryFirst(sheet, row) ==
    IF \E c \in 1..Len(sheet.columns) : sheet.columns[c] = "Category"
    THEN LET p == CHOOSE c \in 1..Len(sheet.columns) : sheet.columns[c] = "Category"
         IN  <<row[p]>> \o [c \in 1..(Len(row) - 1) |->
                               IF c < p THEN row[c] ELSE row[c + 1]]
    ELSE row

\* C5: remove_subtotal.py writes to HDFC_modified.xlsx every sheet of the
\* original workbook under the same name and in the same order; no "Sub total"
\* row remains in a written sheet and every other row is kept, in its order.
C5_SubTotalsRemoved ==
    (script = "remove_subtotal" /\ pc = "done") =>
        /\ Len(disk.modified) = Len(disk.original)
        /\ \A k \in 1..Len(disk.original) :
              LET orig == disk.original[k]
                  out == disk.modified[k]
                  kept == SelectSeq(orig.rows, LAMBDA row : ~IsSubTotalRow(orig, row))
              IN  /\ out.name = orig.name
                  /\ out.columns = CategoryFirst(orig, orig.columns)
                  /\ \A j \in 1..Len(out.rows) : ~IsSubTotalRow(out, out.rows[j])
                  /\ out.rows = [j \in 1..Len(kept) |-> CategoryFirst(orig, kept[j])]

\* C5 witness: a sheet with a Category column lost its "Sub total" row and
\* kept its other row
C5_Witness ==
    /\ script = "remove_subtotal"
    /\ pc = "done"
    /\ \E k \in 1..Len(disk.original) :
          /\ disk.original[k].name = "Data"
          /\ disk.original[k].columns = <<"Value", "Category">>
          /\ Len(disk.original[k].rows) = 2
          /\ disk.original[k].rows[1][2] = "Sub total"
          /\ disk.modified[k].rows = <<CategoryFirst(disk.original[k],
                                                     disk.original[k].rows[2])>>

\* C19: remove_subtotal.py never writes HDFC.xlsx; it creates
\* HDFC_backup.xlsx, as a copy of HDFC.xlsx, only when there is no such file,
\* and no run overwrites a backup that exists; a run that finds the
\* HDFC_modified.xlsx of an earlier run writes the same file again.
C19_OriginalAndBackupKept ==
    [][script = "remove_subtotal" =>
          /\ disk'.original = disk.original
          /\ disk.backup # <<>> => disk'.backup = disk.backup
          /\ disk'.backup # disk.backup =>
                 pc = "start" /\ disk'.backup = disk.original
          /\ (pc' = "done" /\ disk.modified # <<>>) =>
                 disk'.modified = disk.modified
          /\ pc' = "done" => Len(disk'.modified) = Len(disk.original)]_vars

\* C19 witness: a second run is at its second sheet; the first run left its
\* output, and the backup older than both runs is still there
C19_Witness ==
    /\ script = "remove_subtotal"
    /\ pc = "loop"
    /\ rs.k = 1
    /\ disk.modified # <<>>
    /\ disk.backup = OldBackup
    /\ disk.backup # disk.original

\* ------------------------------------------------------------------------
\* Properties of the automatic grouping
\* ------------------------------------------------------------------------
\* C2: with column_groups=None create_dashboard makes, for a table of N >= 0
\* columns, exactly ceil(N/4) groups of 1 to 4 columns that cover the columns
\* in order: the groups the driver scripts compute for that table.
C2_AutoGroups ==
    (script = "caller" /\ pc # "idle" /\ call.fn = "create_dashboard"
        /\ call.column_groups.isNone) =>
        LET N == Len(df.columns)
            groups == cd.column_groups
        IN  /\ 4 * Len(groups) >= N
            /\ 4 * (Len(groups) - 1) < N
            /\ \A g \in 1..Len(groups) : Len(groups[g]) \in 1..4
            /\ Concat(groups) = df.columns
            /\ groups = main_column_groups(df.columns)
            /\ groups = examples_column_groups(df.columns)

====
